---- MODULE Spec2Model ----
(***************************************************************************)
(* A model of the Scala Native identifier demangler (src/src/lib.rs).      *)
(*                                                                         *)
(* Strings are sequences of one-character strings, so that slicing,        *)
(* starts_with and the byte offsets the decoders hand to each other are    *)
(* computed as the code computes them.  Every decoder is an operator that  *)
(* returns a result record: Ok (with the consumed count and the value),    *)
(* Err (the code returned Err(..)) or Panic (the code indexed a slice out  *)
(* of range or subtracted below zero: the process aborts).                 *)
(***************************************************************************)
EXTENDS Naturals, Sequences, FiniteSets, TLC

VARIABLES
    input,      \* the identifier handed to demangle
    config,     \* DemanglingConfig.collapse_scala_names
    pc,         \* "demangle" (called), "defn_name" (prefix accepted), "done"
    rest,       \* the suffix handed to defn_name (input[2..])
    result      \* the ParsingResult<String> of demangle, once pc = "done"

vars == <<input, config, pc, rest, result>>

(***************************************************************************)
(* Bounds of the model.                                                    *)
(***************************************************************************)
\* longest payload of the enumerated name tokens
MaxNameLen == 2
\* longest enumerated type-name list
MaxTypes == 3

(***************************************************************************)
(* Results.                                                                *)
(***************************************************************************)
Ok(c, v) == [tag |-> "Ok", consumed |-> c, value |-> v, msg |-> ""]
OkS(v) == Ok(0, v)
Err(m) == [tag |-> "Err", consumed |-> 0, value |-> <<>>, msg |-> m]
Panic(m) == [tag |-> "Panic", consumed |-> 0, value |-> <<>>, msg |-> m]

(***************************************************************************)
(* str primitives.                                                         *)
(***************************************************************************)
Digit == {"0", "1", "2", "3", "4", "5", "6", "7", "8", "9"}

\* char::is_digit(10)
is_digit(c) == c \in Digit

DigitVal(c) ==
    CASE c = "0" -> 0 [] c = "1" -> 1 [] c = "2" -> 2 [] c = "3" -> 3
      [] c = "4" -> 4 [] c = "5" -> 5 [] c = "6" -> 6 [] c = "7" -> 7
      [] c = "8" -> 8 [] c = "9" -> 9

\* str::starts_with
starts_with(s, p) == Len(s) >= Len(p) /\ SubSeq(s, 1, Len(p)) = p

\* &s[k..]; the caller has established k <= len
From(s, k) == SubSeq(s, k + 1, Len(s))

\* &s[a..b]; the caller has established a <= b <= len
Slice(s, a, b) == SubSeq(s, a + 1, b)

\* the number of leading decimal digits of s
RECURSIVE number(_)
number(s) ==
    IF s # <<>> /\ is_digit(Head(s)) THEN 1 + number(Tail(s)) ELSE 0

RECURSIVE StripZeros(_)
StripZeros(d) ==
    IF Len(d) > 1 /\ Head(d) = "0" THEN StripZeros(Tail(d)) ELSE d

\* lexicographic d <= e for digit strings of equal length
RECURSIVE DigitsLeq(_, _)
DigitsLeq(d, e) ==
    IF d = <<>> THEN TRUE
    ELSE IF DigitVal(Head(d)) < DigitVal(Head(e)) THEN TRUE
    ELSE IF DigitVal(Head(d)) > DigitVal(Head(e)) THEN FALSE
    ELSE DigitsLeq(Tail(d), Tail(e))

\* usize::MAX on a 64-bit target, in decimal
UsizeMaxDigits ==
    <<"1", "8", "4", "4", "6", "7", "4", "4", "0", "7",
      "3", "7", "0", "9", "5", "5", "1", "6", "1", "5">>

\* usize::from_str_radix(d, 10) is Ok: the value fits 64 bits
FitsUsize(d) ==
    LET z == StripZeros(d) IN
    \/ Len(z) < Len(UsizeMaxDigits)
    \/ Len(z) = Len(UsizeMaxDigits) /\ DigitsLeq(z, UsizeMaxDigits)

RECURSIVE ParseDec(_)
ParseDec(d) ==
    IF d = <<>> THEN 0
    ELSE 10 * ParseDec(SubSeq(d, 1, Len(d) - 1)) + DigitVal(d[Len(d)])

RECURSIVE Concat(_)
Concat(ss) == IF ss = <<>> THEN <<>> ELSE Head(ss) \o Concat(Tail(ss))

\* [String]::join
RECURSIVE join(_, _)
join(ss, sep) ==
    IF ss = <<>> THEN <<>>
    ELSE IF Len(ss) = 1 THEN Head(ss)
    ELSE Head(ss) \o sep \o join(Tail(ss), sep)

(***************************************************************************)
(* The string literals of the code.                                        *)
(***************************************************************************)
s_scala_dot == <<"s", "c", "a", "l", "a", ".">>
s_immut ==
    <<"s", "c", "a", "l", "a", ".", "c", "o", "l", "l", "e", "c", "t", "i",
      "o", "n", ".", "i", "m", "m", "u", "t", "a", "b", "l", "e", ".">>
s_java_lang_Object ==
    <<"j", "a", "v", "a", ".", "l", "a", "n", "g", ".",
      "O", "b", "j", "e", "c", "t">>
s_java_lang_String ==
    <<"j", "a", "v", "a", ".", "l", "a", "n", "g", ".",
      "S", "t", "r", "i", "n", "g">>
s_java_lang_Throwable ==
    <<"j", "a", "v", "a", ".", "l", "a", "n", "g", ".",
      "T", "h", "r", "o", "w", "a", "b", "l", "e">>
s_Object == <<"O", "b", "j", "e", "c", "t">>
s_String == <<"S", "t", "r", "i", "n", "g">>
s_Throwable == <<"T", "h", "r", "o", "w", "a", "b", "l", "e">>
s_Boolean == <<"B", "o", "o", "l", "e", "a", "n">>
s_Char == <<"C", "h", "a", "r">>
s_Float == <<"F", "l", "o", "a", "t">>
s_Double == <<"D", "o", "u", "b", "l", "e">>
s_Unit == <<"U", "n", "i", "t">>
s_Null == <<"N", "u", "l", "l">>
s_Nothing == <<"N", "o", "t", "h", "i", "n", "g">>
s_Byte == <<"B", "y", "t", "e">>
s_Short == <<"S", "h", "o", "r", "t">>
s_Int == <<"I", "n", "t">>
s_Long == <<"L", "o", "n", "g">>
s_c_vararg == <<"<", "c", " ", "v", "a", "r", "a", "r", "g", ">">>
s_c_pointer == <<"<", "c", " ", "p", "o", "i", "n", "t", "e", "r", ">">>
s_CArray_open == <<"C", "A", "r", "r", "a", "y", "[">>
s_Array_open == <<"A", "r", "r", "a", "y", "[">>
s_clinit == <<"<", "c", "l", "i", "n", "i", "t", ">">>
s_private_open == <<"<", "p", "r", "i", "v", "a", "t", "e", "[">>
s_private_close == <<"]", ">">>

(***************************************************************************)
(* fn name: a decimal length, an optional '-', then that many bytes.       *)
(* rest[a..b] panics when b exceeds rest.len().                            *)
(***************************************************************************)
\* name with the sign marker left out of the consumed count
name_marker_uncounted(inp) ==
    LET number_end == number(inp) IN
    IF number_end >= 1 THEN
        LET length == Slice(inp, 0, number_end)
            rst == From(inp, number_end)
        IN  IF FitsUsize(length) THEN
                LET res == ParseDec(length) IN
                IF starts_with(rst, <<"-">>) THEN
                    IF 1 + res > Len(rst)
                    THEN Panic("byte index out of bounds")
                    ELSE Ok(Len(length) + res, Slice(rst, 1, 1 + res))
                ELSE
                    IF res > Len(rst)
                    THEN Panic("byte index out of bounds")
                    ELSE Ok(Len(length) + res, Slice(rst, 0, res))
            ELSE Err("name: invalid length")
    ELSE Err("name: invalid input")

name(inp) ==
    LET number_end == number(inp) IN
    IF number_end >= 1 THEN
        LET length == Slice(inp, 0, number_end)
            rst == From(inp, number_end)
        IN  IF FitsUsize(length) THEN
                LET res == ParseDec(length) IN
                IF starts_with(rst, <<"-">>) THEN
                    IF 1 + res > Len(rst)
                    THEN Panic("byte index out of bounds")
                    ELSE Ok(Len(length) + 1 + res, Slice(rst, 1, 1 + res))
                ELSE
                    IF res > Len(rst)
                    THEN Panic("byte index out of bounds")
                    ELSE Ok(Len(length) + res, Slice(rst, 0, res))
            ELSE Err("name: invalid length")
    ELSE Err("name: invalid input")

(***************************************************************************)
(* Rendering of the names under collapse_scala_names.                      *)
(***************************************************************************)
\* scala_root_name that never reinstates the prefix
scala_root_name_always_short(nm, collapse) == nm

scala_root_name(nm, collapse) ==
    IF ~collapse THEN s_scala_dot \o nm ELSE nm

common_type_name(nm, collapse) ==
    IF ~collapse THEN nm
    ELSE IF nm = s_java_lang_Object THEN s_Object
    ELSE IF nm = s_java_lang_String THEN s_String
    ELSE IF nm = s_java_lang_Throwable THEN s_Throwable
    ELSE IF starts_with(nm, s_immut) THEN From(nm, Len(s_immut))
    ELSE nm

(***************************************************************************)
(* fn type_name and fn nullable_type_name.  Where the code binds the       *)
(* result of a decoder (let (consumed, x) = f(..)?), the model hands the   *)
(* result to an operator that holds the rest of the arm: it returns the    *)
(* failure as it is (the ? operator) or goes on with the value.            *)
(***************************************************************************)
\* the consumed count type_name reports for 'A <type-name> <number> _'
carray_consumed(consumed, num) == consumed + num + 1

\* type_name, arm 'L', after nullable_type_name(&input[1..], config)?
type_name_L(r, collapse) ==
    IF r.tag # "Ok" THEN r
    ELSE Ok(r.consumed + 1, common_type_name(r.value, collapse))

\* type_name, arm 'A', after type_name(&input[1..], config)?
type_name_A(inp, r) ==
    IF r.tag # "Ok" THEN r
    ELSE IF 1 + r.consumed > Len(inp) THEN Panic("byte index out of bounds")
    ELSE Ok(carray_consumed(r.consumed, number(From(inp, 1 + r.consumed))),
            s_CArray_open \o r.value \o <<"]">>)

\* type_name, arm 'X', after name(&input[1..], config)?
type_name_X(r) ==
    IF r.tag # "Ok" THEN r ELSE Ok(r.consumed + 1, r.value)

\* nullable_type_name, arm 'A', after type_name(&input[1..], config)?
nullable_type_name_A(r) ==
    IF r.tag # "Ok" THEN r
    ELSE Ok(r.consumed + 2, s_Array_open \o r.value \o <<"]">>)

\* nullable_type_name, arm 'X', after name(input, config)?
nullable_type_name_X(r) ==
    IF r.tag # "Ok" THEN r ELSE Ok(r.consumed + 1, r.value)

RECURSIVE type_name(_, _)
RECURSIVE nullable_type_name(_, _)

type_name(inp, collapse) ==
    IF inp = <<>> THEN Err("type_name: unexpected end of input")
    ELSE
    CASE Head(inp) = "v" -> Ok(1, s_c_vararg)
      [] Head(inp) = "z" -> Ok(1, scala_root_name(s_Boolean, collapse))
      [] Head(inp) = "c" -> Ok(1, scala_root_name(s_Char, collapse))
      [] Head(inp) = "f" -> Ok(1, scala_root_name(s_Float, collapse))
      [] Head(inp) = "d" -> Ok(1, scala_root_name(s_Double, collapse))
      [] Head(inp) = "u" -> Ok(1, scala_root_name(s_Unit, collapse))
      [] Head(inp) = "l" -> Ok(1, scala_root_name(s_Null, collapse))
      [] Head(inp) = "n" -> Ok(1, scala_root_name(s_Nothing, collapse))
      [] Head(inp) = "b" -> Ok(1, scala_root_name(s_Byte, collapse))
      [] Head(inp) = "s" -> Ok(1, scala_root_name(s_Short, collapse))
      [] Head(inp) = "i" -> Ok(1, scala_root_name(s_Int, collapse))
      [] Head(inp) = "j" -> Ok(1, scala_root_name(s_Long, collapse))
      [] Head(inp) = "R" ->
            IF Len(inp) < 2 THEN Err("type_name: unexpected end of input")
            ELSE IF inp[2] = "_" THEN Ok(2, s_c_pointer)
            ELSE Err("type_name: after R expected _")
      [] Head(inp) = "L" ->
            type_name_L(nullable_type_name(From(inp, 1), collapse), collapse)
      [] Head(inp) = "A" ->
            type_name_A(inp, type_name(From(inp, 1), collapse))
      [] Head(inp) = "X" -> type_name_X(name(From(inp, 1)))
      [] OTHER -> Err("type_name: unexpected start character")

nullable_type_name(inp, collapse) ==
    IF inp = <<>> THEN Err("nullable_type_name: unexpected end of input")
    ELSE
    CASE Head(inp) = "A" ->
            nullable_type_name_A(type_name(From(inp, 1), collapse))
      [] Head(inp) = "X" -> nullable_type_name_X(name(inp))
      [] is_digit(Head(inp)) -> name(inp)
      [] OTHER -> Err("nullable_type_name: unexpected start")

(***************************************************************************)
(* fn read_type_names: the loop, as a recursion on (pos, result).          *)
(* input[pos..] panics when pos exceeds input.len().                       *)
(***************************************************************************)
RECURSIVE read_type_names_loop(_, _, _, _)
RECURSIVE read_type_names_push(_, _, _, _, _)

\* the loop's condition, and type_name(&input[pos..], config)? in its body
read_type_names_loop(inp, pos, acc, collapse) ==
    IF pos > Len(inp) THEN Panic("byte index out of bounds")
    ELSE IF starts_with(From(inp, pos), <<"E">>) THEN Ok(pos, acc)
    ELSE read_type_names_push(inp, pos, acc,
                              type_name(From(inp, pos), collapse), collapse)

\* result.push(nm); pos += consumed
read_type_names_push(inp, pos, acc, r, collapse) ==
    IF r.tag # "Ok" THEN r
    ELSE read_type_names_loop(inp, pos + r.consumed,
                              Append(acc, r.value), collapse)

read_type_names(inp, collapse) == read_type_names_loop(inp, 0, <<>>, collapse)

(***************************************************************************)
(* enum Scope, fn render_scope.                                            *)
(***************************************************************************)
Scope(kind, inn) == [kind |-> kind, inn |-> inn]

\* render_scope with the static private scope rendered like the public ones
render_scope_static_unmarked(sc) ==
    CASE sc.kind = "Public" -> <<>>
      [] sc.kind = "PublicStatic" -> <<>>
      [] sc.kind = "Private" -> s_private_open \o sc.inn \o s_private_close
      [] sc.kind = "PrivateStatic" -> <<>>

render_scope(sc) ==
    CASE sc.kind = "Public" -> <<>>
      [] sc.kind = "PublicStatic" -> <<>>
      [] sc.kind = "Private" -> s_private_open \o sc.inn \o s_private_close
      [] sc.kind = "PrivateStatic" ->
            s_private_open \o sc.inn \o s_private_close

(***************************************************************************)
(* The rendering of a method-like signature from its decoded type names.   *)
(* type_names[0..k] panics when k exceeds the length; n - 1 and n - 2 on   *)
(* usize panic (debug) or wrap to a range end past the length (release),   *)
(* which panics as well.                                                   *)
(***************************************************************************)
\* the method rendering with the parameter list cut as tags K and P cut it
render_D_drop_last(prefix, nm, type_names) ==
    LET n == Len(type_names) IN
    IF n = 1 THEN OkS(prefix \o nm \o <<":", " ">> \o join(type_names, <<",">>))
    ELSE IF n < 2 THEN Panic("attempt to subtract with overflow")
    ELSE OkS(prefix \o nm \o <<"(">>
             \o join(Slice(type_names, 0, n - 2), <<",">>)
             \o <<")", ":", " ">> \o type_names[n])

\* sig_name, tag D: match type_names.len() { 1 => .., n => ..[0..n - 1].. }
render_D(prefix, nm, type_names) ==
    LET n == Len(type_names) IN
    IF n = 1 THEN OkS(prefix \o nm \o <<":", " ">> \o join(type_names, <<",">>))
    ELSE IF n < 1 THEN Panic("attempt to subtract with overflow")
    ELSE OkS(prefix \o nm \o <<"(">>
             \o join(Slice(type_names, 0, n - 1), <<",">>)
             \o <<")", ":", " ">> \o type_names[n])

\* sig_name, tags K and P: match .. { 1 => .., n => ..[0..n - 2].. }
render_KP(nm, type_names) ==
    LET n == Len(type_names) IN
    IF n = 1 THEN OkS(nm \o <<":", " ">> \o join(type_names, <<",">>))
    ELSE IF n < 2 THEN Panic("attempt to subtract with overflow")
    ELSE OkS(nm \o <<"(">>
             \o join(Slice(type_names, 0, n - 2), <<",">>)
             \o <<")", ":", " ">> \o type_names[n])

(***************************************************************************)
(* fn defn_name, toplevel_name, member_name, sig_name, scope.              *)
(***************************************************************************)
RECURSIVE defn_name(_, _)
RECURSIVE member_name(_, _)
RECURSIVE sig_name(_, _)
RECURSIVE scope(_, _)

\* name(..).map(|t| t.1), and Ok(name(..)?.1)
name_only(r) == IF r.tag # "Ok" THEN r ELSE OkS(r.value)

toplevel_name(inp) == name_only(name(inp))

defn_name(inp, collapse) ==
    IF starts_with(inp, <<"T">>) THEN toplevel_name(From(inp, 1))
    ELSE IF starts_with(inp, <<"M">>) THEN member_name(From(inp, 1), collapse)
    ELSE IF Len(inp) > 0 THEN Err("defn_name: unknown name modifier")
    ELSE Err("defn_name: unexpectedly empty rest of identifier")

\* member_name: signature.and_then(|s| Ok(format!("{}.{}", owner, s)))
member_name_render(owner, signature) ==
    IF signature.tag # "Ok" THEN signature
    ELSE OkS(owner \o <<".">> \o signature.value)

\* member_name, after name(input, config)?
member_name_owner(inp, r, collapse) ==
    IF r.tag # "Ok" THEN r
    ELSE member_name_render(r.value,
                            sig_name(From(inp, r.consumed), collapse))

member_name(inp, collapse) == member_name_owner(inp, name(inp), collapse)

\* scope: defn_name(..).map(|i| Scope::Private(i)), and PrivateStatic
scope_private(kind, d) ==
    IF d.tag # "Ok" THEN d ELSE OkS(Scope(kind, d.value))

scope(inp, collapse) ==
    IF starts_with(inp, <<"O">>) THEN OkS(Scope("Public", <<>>))
    ELSE IF starts_with(inp, <<"o">>) THEN OkS(Scope("PublicStatic", <<>>))
    ELSE IF starts_with(inp, <<"P">>) THEN
        scope_private("Private", defn_name(From(inp, 1), collapse))
    ELSE IF starts_with(inp, <<"p">>) THEN
        scope_private("PrivateStatic", defn_name(From(inp, 1), collapse))
    ELSE Err("scope: cannot read")

\* sig_name, tag F: scope(rest, config).map(|sc| render_scope(sc) + name)
sig_name_F_scope(field_name, sc) ==
    IF sc.tag # "Ok" THEN sc
    ELSE OkS(render_scope(sc.value) \o field_name)

\* sig_name, tag F, after name(&input[1..], config)?
sig_name_F(inp, r, collapse) ==
    IF r.tag # "Ok" THEN r
    ELSE sig_name_F_scope(r.value,
                          scope(From(inp, 1 + r.consumed), collapse))

\* sig_name, tag R, after read_type_names(&input[1..], config)?
sig_name_R(t) ==
    IF t.tag # "Ok" THEN t ELSE OkS(join(t.value, <<",", " ">>))

\* sig_name, tags K and P, after read_type_names(after_name, config)?
sig_name_KP_types(nm, t) ==
    IF t.tag # "Ok" THEN t ELSE render_KP(nm, t.value)

\* sig_name, tags K and P, after name(after_tag, config)?
sig_name_KP_name(after_tag, r, collapse) ==
    IF r.tag # "Ok" THEN r
    ELSE sig_name_KP_types(r.value,
            read_type_names(From(after_tag, r.consumed), collapse))

\* sig_name, tags K and P
sig_name_KP(inp, collapse) ==
    sig_name_KP_name(From(inp, 1), name(From(inp, 1)), collapse)

\* sig_name, tag D, after scope(&after_types, config)?
sig_name_D_scope(nm, type_names, sc) ==
    IF sc.tag # "Ok" THEN sc
    ELSE render_D(render_scope(sc.value), nm, type_names)

\* sig_name, tag D, after read_type_names(after_name, config)?
sig_name_D_types(after_name, nm, t, collapse) ==
    IF t.tag # "Ok" THEN t
    ELSE sig_name_D_scope(nm, t.value,
                          scope(From(after_name, t.consumed + 1), collapse))

\* sig_name, tag D, after name(after_tag, config)?
sig_name_D_name(after_tag, r, collapse) ==
    IF r.tag # "Ok" THEN r
    ELSE sig_name_D_types(From(after_tag, r.consumed), r.value,
            read_type_names(From(after_tag, r.consumed), collapse), collapse)

\* sig_name, tag D
sig_name_D(inp, collapse) ==
    sig_name_D_name(From(inp, 1), name(From(inp, 1)), collapse)

sig_name(inp, collapse) ==
    IF starts_with(inp, <<"C">>) \/ starts_with(inp, <<"G">>) THEN
        name_only(name(From(inp, 1)))
    ELSE IF starts_with(inp, <<"I">>) THEN OkS(s_clinit)
    ELSE IF starts_with(inp, <<"F">>) THEN
        sig_name_F(inp, name(From(inp, 1)), collapse)
    ELSE IF starts_with(inp, <<"R">>) THEN
        sig_name_R(read_type_names(From(inp, 1), collapse))
    ELSE IF starts_with(inp, <<"K">>) THEN sig_name_KP(inp, collapse)
    ELSE IF starts_with(inp, <<"P">>) THEN sig_name_KP(inp, collapse)
    ELSE IF starts_with(inp, <<"D">>) THEN sig_name_D(inp, collapse)
    ELSE Err("sig_name: expected to start with F/R/D/P/C/G/K/I")

(***************************************************************************)
(* pub fn demangle, as an operator (the whole call) and as the two steps   *)
(* of the state machine below.                                             *)
(***************************************************************************)
\* the marker check that looks at the first byte only
has_scheme_prefix_first_byte(inp) == starts_with(inp, <<"_">>)

has_scheme_prefix(inp) == starts_with(inp, <<"_", "S">>)

demangle(inp, collapse) ==
    IF ~has_scheme_prefix(inp)
    THEN Err("identifier doesn't start with _S")
    ELSE defn_name(From(inp, 2), collapse)

(***************************************************************************)
(* The identifiers the model decodes.  They are built from pieces of the   *)
(* grammar, well formed and not, and include the identifiers of the        *)
(* repository's test (tests::it_works).                                    *)
(***************************************************************************)
DigitChar(k) == <<"0", "1", "2", "3", "4", "5", "6", "7", "8", "9">>[k + 1]

\* the decimal text of n, as format!("{n}") writes it
RECURSIVE Digits(_)
Digits(n) ==
    IF n < 10 THEN <<DigitChar(n)>>
    ELSE Digits(n \div 10) \o <<DigitChar(n % 10)>>

\* the name tokens '{n}{payload}' and '{n}-{payload}'
NameTok(p) == Digits(Len(p)) \o p
NameTokDash(p) == Digits(Len(p)) \o <<"-">> \o p

\* all strings over alphabet A of length at most k
StringsUpTo(A, k) == UNION {[1..n -> A] : n \in 0..k}

n_dispatch ==
    <<"_", "_", "d", "i", "s", "p", "a", "t", "c", "h">>
n_java_lang_Integer ==
    <<"j", "a", "v", "a", ".", "l", "a", "n", "g", ".", "I", "n", "t",
      "e", "g", "e", "r">>
n_compare ==
    <<"c", "o", "m", "p", "a", "r", "e">>
n_fansi_Trie ==
    <<"f", "a", "n", "s", "i", ".", "T", "r", "i", "e">>
n_init_anonfun ==
    <<"$", "i", "n", "i", "t", "$", "$", "$", "a", "n", "o", "n", "f",
      "u", "n", "$", "5">>
n_scala_Tuple2 ==
    <<"s", "c", "a", "l", "a", ".", "T", "u", "p", "l", "e", "2">>
n_immut_List ==
    <<"s", "c", "a", "l", "a", ".", "c", "o", "l", "l", "e", "c", "t",
      "i", "o", "n", ".", "i", "m", "m", "u", "t", "a", "b", "l", "e",
      ".", "L", "i", "s", "t">>
n_JUnitFramework ==
    <<"s", "c", "a", "l", "a", ".", "s", "c", "a", "l", "a", "n", "a",
      "t", "i", "v", "e", ".", "j", "u", "n", "i", "t", ".", "J", "U",
      "n", "i", "t", "F", "r", "a", "m", "e", "w", "o", "r", "k">>

SchemePrefix == <<"_", "S">>

NameChars == {"a", "-", "7"}
Payloads == StringsUpTo(NameChars, MaxNameLen)
LongNames == {n_dispatch, n_fansi_Trie, s_java_lang_String, n_immut_List}

\* a declared length, an optional sign marker, a payload that may be shorter
\* or longer than declared, at the top level or as the owner of a member
NameInputs ==
    {SchemePrefix \o d \o Digits(n) \o m \o p \o sfx :
        d \in {<<"T">>, <<"M">>}, n \in 0..(MaxNameLen + 1),
        m \in {<<>>, <<"-">>}, p \in Payloads, sfx \in {<<>>, <<"I">>}}
    \cup {SchemePrefix \o <<"T">> \o t :
            t \in {NameTok(p) : p \in LongNames}
                  \cup {NameTokDash(p) : p \in LongNames}}

\* the type-name tokens the lists are enumerated over
CoreTypeToks ==
    {<<"i">>, <<"z">>, <<"L", "1", "b">>, <<"L", "A", "i", "_">>,
     <<"A", "i", "3", "_">>, <<"X", "1", "b">>}

PrimitiveTags == {"z", "c", "f", "d", "u", "l", "n", "b", "s", "i", "j"}

\* C-array tokens 'A <type-name> <number> _'
CArrayToks ==
    {<<"A">> \o t \o d \o <<"_">> :
        t \in {<<"i">>, <<"L", "1", "b">>, <<"X", "1", "b">>, <<"R", "_">>},
        d \in {<<"3">>, <<"1", "2">>}}

\* nullable exact-class tokens 'L X <name>'
NullableExactToks ==
    {<<"L", "X">> \o NameTok(p) :
        p \in {<<"b">>, <<"b", "c">>, n_fansi_Trie, s_java_lang_String}}

MoreTypeToks ==
    {<<c>> : c \in PrimitiveTags}
    \cup {<<"v">>, <<"R", "_">>, <<"R", "x">>, <<"R">>, <<"S">>, <<"L">>,
          <<"L", "q">>, <<"L", "A">>, <<"L", "A", "i">>, <<"A">>,
          <<"A", "i">>, <<"A", "i", "_">>, <<"X">>, <<"X", "3", "b">>,
          <<"L", "3", "b">>, <<"L", "A", "L", "1", "b", "_">>,
          <<"L", "A", "L", "A", "i", "_", "_">>}
    \cup {<<"L">> \o NameTok(p) :
            p \in {s_java_lang_Object, s_java_lang_String,
                   s_java_lang_Throwable, n_immut_List, n_fansi_Trie}}
    \cup {<<"X">> \o NameTok(p) : p \in {s_java_lang_String, n_immut_List}}
    \cup {<<"L", "A", "L">> \o NameTok(s_java_lang_String) \o <<"_">>}
    \cup CArrayToks \cup NullableExactToks

Owner == <<"M", "1", "a">>
Member == <<"1", "f">>

\* every list of at most MaxTypes core tokens, under each list-taking tag
TypeListInputs ==
    {SchemePrefix \o Owner \o h \o Concat(tl) \o <<"E">> \o t :
        h \in {<<"D">> \o Member, <<"P">> \o Member, <<"K">> \o Member,
               <<"R">>},
        tl \in StringsUpTo(CoreTypeToks, MaxTypes),
        t \in {<<>>, <<"O">>}}

\* every token alone, as a return type after a parameter, and unterminated
TypeTokInputs ==
    {SchemePrefix \o Owner \o h \o pre \o tok \o t :
        h \in {<<"D">> \o Member, <<"P">> \o Member, <<"R">>},
        pre \in {<<>>, <<"i">>},
        tok \in MoreTypeToks,
        t \in {<<"E", "O">>, <<>>}}

ScopeToks ==
    {<<"O">>, <<"o">>, <<"P", "T", "1", "b">>, <<"p", "T", "1", "b">>,
     <<"P", "M", "1", "b", "C", "1", "c">>,
     <<"p", "M", "1", "b", "D", "1", "g", "i", "E", "O">>,
     <<"P", "M", "1", "b", "F", "1", "g", "p", "T", "1", "c">>,
     <<"P", "T">> \o NameTok(n_fansi_Trie), <<"p">>, <<"P", "X">>,
     <<"Q">>, <<"T", "1", "b">>, <<>>}

\* fields and methods under every scope
ScopeInputs ==
    {SchemePrefix \o Owner \o h \o sc :
        h \in {<<"F">> \o Member,
               <<"D">> \o Member \o <<"E">>,
               <<"D">> \o Member \o <<"i", "E">>,
               <<"D">> \o Member \o <<"i", "z", "E">>,
               <<"D">> \o Member \o <<"L", "1", "b", "i", "z", "E">>},
        sc \in ScopeToks}

\* the other productions of sig-name and defn-name
TagInputs ==
    {SchemePrefix \o d \o s :
        d \in {Owner, <<"T", "1", "a">>, <<"X", "1", "a">>, <<>>},
        s \in {<<>>, <<"I">>, <<"I", "E">>, <<"C", "1", "f">>,
               <<"G", "1", "f">>, <<"C">>, <<"Z", "1", "f">>,
               <<"F">>, <<"D">>, <<"K">>, <<"R">>, <<"R", "E">>}}

It_works ==
    {SchemePrefix \o <<"T">> \o NameTok(n_dispatch),
     SchemePrefix \o <<"M">> \o NameTok(n_java_lang_Integer) \o <<"D">>
        \o NameTok(n_compare) \o <<"i", "i", "i", "E", "o">>,
     SchemePrefix \o <<"M">> \o NameTok(n_JUnitFramework) \o <<"I", "E">>,
     SchemePrefix \o <<"M">> \o NameTok(n_fansi_Trie) \o <<"D">>
        \o NameTok(n_init_anonfun) \o <<"c", "L", "A", "L">>
        \o NameTok(n_fansi_Trie) \o <<"_", "L">> \o NameTok(n_scala_Tuple2)
        \o <<"u", "E", "p", "T">> \o NameTok(n_fansi_Trie)}

WellFormed ==
    NameInputs \cup TypeListInputs \cup TypeTokInputs \cup ScopeInputs
    \cup TagInputs \cup It_works

\* the same identifiers behind something other than the scheme marker
BadPrefixes ==
    {<<>>, <<"_">>, <<"S">>, <<"_", "T">>, <<"S", "_">>, <<"_", "s">>,
     <<"_", "_", "S">>, <<"T">>, <<"M">>}

BadPrefixInputs ==
    {p \o From(i, 2) : p \in BadPrefixes, i \in ScopeInputs \cup It_works}
    \cup BadPrefixes

Identifiers == WellFormed \cup BadPrefixInputs

(***************************************************************************)
(* The state machine: one call of demangle(input, config).                 *)
(***************************************************************************)
NoResult == [tag |-> "None", consumed |-> 0, value |-> <<>>, msg |-> ""]

Init ==
    /\ input \in Identifiers
    /\ config \in BOOLEAN
    /\ pc = "demangle"
    /\ rest = <<>>
    /\ result = NoResult

\* demangle: the check of the scheme marker
Demangle ==
    /\ pc = "demangle"
    /\ IF ~has_scheme_prefix(input)
       THEN /\ result' = Err("identifier doesn't start with _S")
            /\ pc' = "done"
            /\ rest' = rest
       ELSE /\ rest' = From(input, 2)
            /\ pc' = "defn_name"
            /\ result' = result
    /\ UNCHANGED <<input, config>>

\* demangle: return defn_name(&input[2..], config)
DefnName ==
    /\ pc = "defn_name"
    /\ result' = defn_name(rest, config)
    /\ pc' = "done"
    /\ UNCHANGED <<input, config, rest>>

Next == Demangle \/ DefnName

Spec == Init /\ [][Next]_vars

\* a string of the model as a TLA+ string
RECURSIVE Str(_)
Str(s) == IF s = <<>> THEN "" ELSE Head(s) \o Str(Tail(s))

(***************************************************************************)
(* What the properties below read off a state.                             *)
(***************************************************************************)
\* the identifier is 'M <name> <sig-name>' and the owner's name decodes
IsMember == starts_with(rest, <<"M">>) /\ name(From(rest, 1)).tag = "Ok"
MemberOwner == name(From(rest, 1)).value
\* the signature of the member: what follows the owner's name
MemberSig == From(rest, 1 + name(From(rest, 1)).consumed)

\* a comma-separated list, built from its last element
RECURSIVE CommaSep(_)
CommaSep(ts) ==
    IF Len(ts) = 0 THEN <<>>
    ELSE IF Len(ts) = 1 THEN ts[1]
    ELSE CommaSep(SubSeq(ts, 1, Len(ts) - 1)) \o <<",">> \o ts[Len(ts)]

\* '{scopePrefix}{name}({t1,..,tn}): {r}', and '{scopePrefix}{name}: {r}'
\* when n = 0, for the type names tl = [t1..tn, r]
ExpectedMethod(prefix, nm, tl) ==
    LET n == Len(tl) - 1 IN
    IF n = 0 THEN prefix \o nm \o <<":", " ">> \o tl[1]
    ELSE prefix \o nm \o <<"(">> \o CommaSep(SubSeq(tl, 1, n))
         \o <<")", ":", " ">> \o tl[n + 1]

(***************************************************************************)
(* C1: a method signature (tag D) whose type names decode to [t1..tn, r]   *)
(* is rendered as the scope prefix, the name, the n parameters joined by   *)
(* ',' in parentheses and in input order, then ': r'; with n = 0 the       *)
(* parentheses are omitted.                                                *)
(***************************************************************************)
C1_MethodRendering ==
    (pc = "done" /\ IsMember /\ starts_with(MemberSig, <<"D">>)) =>
        LET nm == name(From(MemberSig, 1)) IN
        nm.tag = "Ok" =>
            LET after_name == From(MemberSig, 1 + nm.consumed)
                t == read_type_names(after_name, config)
            IN  (t.tag = "Ok" /\ Len(t.value) >= 1) =>
                    LET sc == scope(From(after_name, t.consumed + 1), config)
                    IN  sc.tag = "Ok" =>
                            result = OkS(MemberOwner \o <<".">>
                                \o ExpectedMethod(render_scope(sc.value),
                                                  nm.value, t.value))

C1_Witness ==
    /\ pc = "done"
    /\ config
    /\ Str(input) = "_SM1aD1fL1bizEO"
    /\ result.tag = "Ok"
    /\ Str(result.value) = "a.f(b,Int): Boolean"

(***************************************************************************)
(* C2: a proxy (tag P) or duplicate (tag K) signature is rendered as the   *)
(* method (tag D) with the same name and type names and a public scope.    *)
(***************************************************************************)
C2_ProxyAsMethod ==
    (pc = "done" /\ IsMember
        /\ (starts_with(MemberSig, <<"P">>) \/ starts_with(MemberSig, <<"K">>)))
    =>  LET d == sig_name(<<"D">> \o Tail(MemberSig) \o <<"O">>, config) IN
        /\ result.tag = d.tag
        /\ d.tag = "Ok" => result.value = MemberOwner \o <<".">> \o d.value

(***************************************************************************)
(* C3: for a name token '{n}{payload}' with a payload of exactly n bytes,  *)
(* name returns the payload and a consumed count of len(str(n)) + n; with  *)
(* a '-' sign marker right after the digits it returns the same payload    *)
(* and a consumed count one greater.  The token is read where the          *)
(* identifier has a name: after 'T' (the result is the payload) and after  *)
(* 'M' (the consumed count decides where the signature is read).           *)
(***************************************************************************)
\* the text after the definition tag, once the call has returned
NameText == From(rest, 1)
HasNameText ==
    pc = "done" /\ (starts_with(rest, <<"T">>) \/ starts_with(rest, <<"M">>))

\* tok begins with '{n}' and n bytes, or with '{n}-' and n bytes
BeginsPlain(tok, n) ==
    starts_with(tok, Digits(n)) /\ Len(tok) >= Len(Digits(n)) + n
BeginsDash(tok, n) ==
    starts_with(tok, Digits(n) \o <<"-">>)
        /\ Len(tok) >= Len(Digits(n)) + 1 + n

\* tok is exactly '{n}{payload}', or that and the tag of a static initializer
IsToken(tok, len) ==
    \/ starts_with(rest, <<"T">>) /\ Len(tok) = len
    \/ starts_with(rest, <<"M">>) /\ Len(tok) = len + 1 /\ tok[len + 1] = "I"

PlainPayload(tok, n) == Slice(tok, Len(Digits(n)), Len(Digits(n)) + n)
DashPayload(tok, n) == Slice(tok, Len(Digits(n)) + 1, Len(Digits(n)) + 1 + n)

\* the byte after the digits of n is one that name reads as part of the prefix
AmbiguousAfter(tok, n) ==
    /\ Len(tok) > Len(Digits(n))
    /\ LET c == tok[Len(Digits(n)) + 1] IN c = "-" \/ is_digit(c)

\* name returns payload p and c bytes consumed, and demangle shows both
NameDecoded(tok, c, p) ==
    /\ name(tok) = Ok(c, p)
    /\ starts_with(rest, <<"T">>) => result = OkS(p)
    /\ (starts_with(rest, <<"M">>) /\ From(tok, c) = <<"I">>) =>
            result = OkS(p \o <<".">> \o s_clinit)

\* the claim as stated: for any payload
C3_AnyPayload ==
    HasNameText =>
        \A n \in 0..Len(NameText) :
            /\ (BeginsPlain(NameText, n)
                    /\ IsToken(NameText, Len(Digits(n)) + n)) =>
                NameDecoded(NameText, Len(Digits(n)) + n,
                            PlainPayload(NameText, n))
            /\ (BeginsDash(NameText, n)
                    /\ IsToken(NameText, Len(Digits(n)) + 1 + n)) =>
                NameDecoded(NameText, Len(Digits(n)) + 1 + n,
                            DashPayload(NameText, n))

\* C3, amended: without the marker, when the byte after the digits (the
\* first byte of the payload) is neither '-' nor a decimal digit; whatever
\* follows the token
C3_NameDecodes ==
    HasNameText =>
        \A n \in 0..Len(NameText) :
            /\ (BeginsPlain(NameText, n) /\ ~AmbiguousAfter(NameText, n)) =>
                NameDecoded(NameText, Len(Digits(n)) + n,
                            PlainPayload(NameText, n))
            /\ BeginsDash(NameText, n) =>
                NameDecoded(NameText, Len(Digits(n)) + 1 + n,
                            DashPayload(NameText, n))

C3_Witness ==
    /\ pc = "done"
    /\ Str(input) = "_SM2-7aI"
    /\ name(NameText) = Ok(4, <<"7", "a">>)
    /\ result.tag = "Ok"
    /\ Str(result.value) = "7a.<clinit>"

(***************************************************************************)
(* C4: when name reads a length prefix n and fewer than n payload bytes    *)
(* remain, it fails with an error result, and so does demangle.            *)
(***************************************************************************)
\* the bytes left for the payload of the name token at the head of tok
PayloadAvailable(tok) ==
    LET after == From(tok, number(tok)) IN
    IF starts_with(after, <<"-">>) THEN Len(after) - 1 ELSE Len(after)

Truncated(tok) ==
    /\ number(tok) >= 1
    /\ PayloadAvailable(tok) < ParseDec(Slice(tok, 0, number(tok)))

C4_TruncatedIsError ==
    (pc = "done" /\ starts_with(rest, <<"T">>) /\ Truncated(From(rest, 1)))
    =>  /\ name(From(rest, 1)).tag = "Err"
        /\ result.tag = "Err"

(***************************************************************************)
(* C5: a method (D), proxy (P) or duplicate (K) signature whose type-name  *)
(* list is empty is rejected with an error result; the constructor (R)     *)
(* accepts the empty list.                                                 *)
(***************************************************************************)
\* the signature is 'tag <name> E ..': a name and an empty type-name list
EmptyListSig(tag) ==
    /\ IsMember
    /\ starts_with(MemberSig, <<tag>>)
    /\ LET nm == name(From(MemberSig, 1)) IN
       /\ nm.tag = "Ok"
       /\ starts_with(From(MemberSig, 1 + nm.consumed), <<"E">>)

C5_EmptyListIsError ==
    pc = "done" =>
        /\ \A tag \in {"D", "P", "K"} :
                EmptyListSig(tag) => result.tag = "Err"
        /\ (IsMember /\ starts_with(MemberSig, <<"R", "E">>)) =>
                result = OkS(MemberOwner \o <<".">>)

(***************************************************************************)
(* C6: demangle with collapse_scala_names true and false both fail or both *)
(* succeed; on success the outputs differ only in the 'scala.' prefix of   *)
(* the primitive kinds and in the shortening of the well-known class       *)
(* names, so owner, member name, scope, parameter count and order agree;   *)
(* a primitive kind is rendered 'scala.Kind' when the flag is false and    *)
(* 'Kind' when it is true.                                                 *)
(***************************************************************************)
\* the primitive kinds by tag
KindOf(c) ==
    CASE c = "z" -> s_Boolean [] c = "c" -> s_Char [] c = "f" -> s_Float
      [] c = "d" -> s_Double [] c = "u" -> s_Unit [] c = "l" -> s_Null
      [] c = "n" -> s_Nothing [] c = "b" -> s_Byte [] c = "s" -> s_Short
      [] c = "i" -> s_Int [] c = "j" -> s_Long

\* the renderings the flag may change: the long form and the short one
CollapseRules ==
    {[long |-> s_scala_dot \o KindOf(c), short |-> KindOf(c)] :
        c \in PrimitiveTags}
    \cup {[long |-> s_java_lang_Object, short |-> s_Object],
          [long |-> s_java_lang_String, short |-> s_String],
          [long |-> s_java_lang_Throwable, short |-> s_Throwable],
          [long |-> s_immut, short |-> <<>>]}

\* s with every long form replaced by its short form
RECURSIVE Collapsed(_)
Collapsed(s) ==
    IF s = <<>> THEN <<>>
    ELSE
        LET hits == {r \in CollapseRules : starts_with(s, r.long)} IN
        IF hits # {}
        THEN LET r == CHOOSE r \in hits : TRUE IN
             r.short \o Collapsed(From(s, Len(r.long)))
        ELSE <<Head(s)>> \o Collapsed(Tail(s))

RECURSIVE Count(_, _)
Count(s, c) ==
    IF s = <<>> THEN 0
    ELSE (IF Head(s) = c THEN 1 ELSE 0) + Count(Tail(s), c)

C6_CollapseKeepsShape ==
    pc = "done" =>
        LET other == demangle(input, ~config) IN
        /\ other.tag = result.tag
        /\ result.tag = "Ok" =>
            /\ Collapsed(result.value) = Collapsed(other.value)
            /\ \A c \in {",", "(", ")", ":", "<", ">", "[", "]"} :
                    Count(result.value, c) = Count(other.value, c)
        /\ \A c \in PrimitiveTags :
                rest = Owner \o <<"R", c, "E", "O">> =>
                    result = OkS(<<"a", ".">>
                        \o (IF config THEN <<>> ELSE s_scala_dot)
                        \o KindOf(c))

C6_Witness ==
    /\ pc = "done"
    /\ ~config
    /\ Str(input) = "_SM17java.lang.IntegerD7compareiiiEo"
    /\ result.tag = "Ok"
    /\ Str(result.value)
        = "java.lang.Integer.compare(scala.Int,scala.Int): scala.Int"
    /\ Str(demangle(input, TRUE).value)
        = "java.lang.Integer.compare(Int,Int): Int"

(***************************************************************************)
(* C7: for a field or method whose scope tag is P or p the scope decoder   *)
(* decodes the remainder as a definition and the member is rendered with   *)
(* '<private[{ownerPath}]>' right before its name; for O and o nothing is  *)
(* prefixed; any other leading scope character yields an error.            *)
(***************************************************************************)
\* the scope prefix the scope text sp stands for, or how decoding it fails
ExpectedScope(sp) ==
    IF starts_with(sp, <<"O">>) \/ starts_with(sp, <<"o">>)
    THEN OkS(<<>>)
    ELSE IF starts_with(sp, <<"P">>) \/ starts_with(sp, <<"p">>)
    THEN LET d == demangle(SchemePrefix \o From(sp, 1), config) IN
         IF d.tag = "Ok"
         THEN OkS(<<"<", "p", "r", "i", "v", "a", "t", "e", "[">>
                  \o d.value \o <<"]", ">">>)
         ELSE d
    ELSE Err("scope")

C7_ScopeRendering ==
    (pc = "done" /\ IsMember) =>
        LET nm == name(From(MemberSig, 1)) IN
        /\ (starts_with(MemberSig, <<"F">>) /\ nm.tag = "Ok") =>
            LET e == ExpectedScope(From(MemberSig, 1 + nm.consumed)) IN
            IF e.tag = "Ok"
            THEN result = OkS(MemberOwner \o <<".">> \o e.value \o nm.value)
            ELSE result.tag = e.tag
        /\ (starts_with(MemberSig, <<"D">>) /\ nm.tag = "Ok") =>
            LET after_name == From(MemberSig, 1 + nm.consumed)
                t == read_type_names(after_name, config)
            IN  (t.tag = "Ok" /\ Len(t.value) >= 1) =>
                    LET e == ExpectedScope(From(after_name, t.consumed + 1))
                    IN  IF e.tag = "Ok"
                        THEN result = OkS(MemberOwner \o <<".">>
                                \o ExpectedMethod(e.value, nm.value, t.value))
                        ELSE result.tag = e.tag

C7_Witness ==
    /\ pc = "done"
    /\ config
    /\ Str(input) = "_SM1aD1fizEpM1bD1giEO"
    /\ result.tag = "Ok"
    /\ Str(result.value) = "a.<private[b.g: Int]>f(Int): Boolean"

(***************************************************************************)
(* C8: for an input that does not start with '_S', demangle returns an     *)
(* error result and defn_name is never entered.                            *)
(***************************************************************************)
LacksMarker == Len(input) < 2 \/ input[1] # "_" \/ input[2] # "S"

C8_MissingPrefix ==
    LacksMarker =>
        /\ pc # "defn_name"
        /\ rest = <<>>
        /\ pc = "done" => result = Err("identifier doesn't start with _S")

C8_Witness ==
    /\ pc = "done"
    /\ Str(input) = "_TM1aF1fO"
    /\ result.tag = "Err"

(***************************************************************************)
(* C9: for a C-array type 'A <type-name> <number> _', type_name reports a  *)
(* consumed count of 1 + innerConsumed + digitCount + 1, the length of the *)
(* token, so that the terminator E of a type-name list is read from the    *)
(* byte right after the '_'.                                               *)
(***************************************************************************)
C9_CArrayConsumed ==
    (pc = "done" /\ IsMember) =>
        \A tok \in CArrayToks :
            MemberSig = <<"R">> \o tok \o <<"E", "O">> =>
                /\ type_name(From(MemberSig, 1), config).tag = "Ok"
                /\ type_name(From(MemberSig, 1), config).consumed = Len(tok)
                /\ result.tag = "Ok"

(***************************************************************************)
(* C10: for a nullable exact-class type 'L X <name>', nullable_type_name   *)
(* decodes the name after the X and succeeds with that class name and a    *)
(* consumed count of nameConsumed + 1; type_name reports nameConsumed + 2. *)
(***************************************************************************)
C10_NullableExactClass ==
    (pc = "done" /\ IsMember) =>
        \A tok \in NullableExactToks :
            MemberSig = <<"R">> \o tok \o <<"E", "O">> =>
                LET nm == name(From(tok, 2))
                    r == nullable_type_name(From(MemberSig, 2), config)
                IN  /\ nm.tag = "Ok"
                    /\ r = Ok(nm.consumed + 1, nm.value)
                    /\ type_name(From(MemberSig, 1), config).consumed
                        = nm.consumed + 2
                    /\ result.tag = "Ok"

(***************************************************************************)
(* C11: the cursor invariant.  Whenever type_name succeeds on a suffix s   *)
(* of the identifier it reports a consumed count c with 1 <= c <= len(s),  *)
(* so that the offset pos of read_type_names, which resumes at pos + c,    *)
(* strictly increases and never exceeds the length of its input.           *)
(***************************************************************************)
C11_CursorInvariant ==
    pc = "done" =>
        \A pos \in 0..Len(rest) :
            LET r == type_name(From(rest, pos), config) IN
            r.tag = "Ok" =>
                /\ 1 <= r.consumed
                /\ pos < pos + r.consumed
                /\ pos + r.consumed <= Len(rest)

====
